---- MODULE Spec2Model ----
(***************************************************************************)
(* netbyte test server (netbyte/testserver.py): the accept loop of         *)
(* launch_testserver, the session handle_connection and its line-buffering *)
(* loop run_test, with the three handlers.  Byte strings are sequences of  *)
(* one-character strings; indices start_i/end_i keep Python's 0-based      *)
(* convention.                                                             *)
(***************************************************************************)
EXTENDS Integers, Sequences, FiniteSets, TLC

\* ---------------------------------------------------------------- bounds
MaxBytes == 14      \* bytes the clients write over the whole run
MaxConns == 2       \* connections the accept loop takes
MaxUnread == 0      \* unread bytes on the wire at which the client still writes
MaxHexLine == 3     \* bytes before the newline of a line given to hex_handler

\* ------------------------------------------------------ program constants
RecvSize == 4096    \* connection.recv(4096)
DefaultHexLength == 10

NL == "\n"
TAB == "\t"

\* What the modelled client may write in one send(): the keyword alone, a
\* data line (a valid byte count), a line that only begins with the keyword,
\* the keyword followed by an unterminated tail, and a data line followed by
\* the keyword in capitals with whitespace around it.
Writes ==
  { <<"e", "n", "d", NL>>,
    <<"3", NL>>,
    <<"e", "n", "d", "i", "n", "g", NL>>,
    <<"e", "n", "d", NL, "m", "o">>,
    <<"3", NL, " ", "E", "N", "D", TAB, NL>> }

VARIABLES
  pc,                \* where the server is
  conn,              \* connections accepted so far
  budget,            \* bytes the clients may still write
  wire,              \* bytes written by the peer, not yet received
  peer,              \* "none" | "open" | "closed": the peer's end of c
  cstate,            \* "none" | "open" | "closed": the server's socket c
  test,              \* 1 Echo, 2 Hex, 3 Byte Count (which run_test call)
  remaining_msg,     \* handle_connection's local
  initial_message,   \* run_test's parameter
  messages,          \* run_test's list, kept joined (it is only read joined)
  remaining_message, \* run_test's local
  done,              \* run_test's local
  message,           \* the chunk of this iteration
  full_message, start_i, end_i,  \* locals of the line loop
  stream,            \* history: bytes received on this connection
  fed,               \* history: input obtained by the current run_test
  acquired,          \* history: inputs the current run_test has obtained
  dispatched,        \* history: lines handled / recognised as terminators
  sent,              \* history: messages sent on this connection
  zeroReads,         \* history: zero-length reads on this connection
  lineReads,         \* history: every recv so far returned one whole line
  ended,             \* history: how this session ended ("" while it runs)
  failures           \* history: sessions ended by an exception so far

vars == <<pc, conn, budget, wire, peer, cstate, test, remaining_msg,
          initial_message, messages, remaining_message, done, message,
          full_message, start_i, end_i, stream, fed, acquired, dispatched,
          sent, zeroReads, lineReads, ended, failures>>

locals == <<test, remaining_msg, initial_message, messages,
            remaining_message, done, message, full_message, start_i, end_i>>
history == <<stream, fed, acquired, dispatched, sent, zeroReads, lineReads,
             ended, failures>>

\* ------------------------------------------------------- string helpers
Min(a, b) == IF a < b THEN a ELSE b

\* Python s[a:b]
Slice(s, a, b) == SubSeq(s, a + 1, b)

\* Python s[a:]
SliceFrom(s, a) == SubSeq(s, a + 1, Len(s))

HasNewline(s) == \E i \in 1..Len(s) : s[i] = NL

\* Python s.find('\n', from): 0-based index, -1 when absent
RECURSIVE Find(_, _)
Find(s, from) ==
  IF from >= Len(s) THEN -1
  ELSE IF s[from + 1] = NL THEN from
  ELSE Find(s, from + 1)

\* \s of the re module, on the bytes the model uses
IsSpace(c) == c \in {" ", TAB, NL}

\* re.IGNORECASE
Lower(c) ==
  CASE c = "E" -> "e"
    [] c = "N" -> "n"
    [] c = "D" -> "d"
    [] OTHER -> c

RECURSIVE SkipSpace(_, _)
SkipSpace(s, i) ==
  IF i <= Len(s) /\ IsSpace(s[i]) THEN SkipSpace(s, i + 1) ELSE i

\* end_pattern.match(line): '^\s*end\s*' anchored at the start only
EndPatternMatch(line) ==
  LET i == SkipSpace(line, 1)
  IN  /\ i + 2 <= Len(line)
      /\ Lower(line[i]) = "e"
      /\ Lower(line[i + 1]) = "n"
      /\ Lower(line[i + 2]) = "d"

\* ------------------------------------------------------------- messages
Msg(kind, t, data) == [kind |-> kind, test |-> t, data |-> data]

Banner == Msg("banner", 0, <<>>)
Header(t) == Msg("header", t, <<>>)
PromptMsg(t) == Msg("prompt", t, <<>>)
TrailingInfo(data) == Msg("trailing", 0, data)
ClosingMsg == Msg("closing", 0, <<>>)

\* the prompt argument of the three run_test calls
HasPrompt(t) == t \in {2, 3}

\* -------------------------------------------------------------- handlers
EchoHandler(line) == << Msg("echo", 1, line) >>

IsDigit(c) == c \in {"0", "1", "2", "3", "4", "5", "6", "7", "8", "9"}

DigitVal(c) ==
  CASE c = "0" -> 0 [] c = "1" -> 1 [] c = "2" -> 2 [] c = "3" -> 3
    [] c = "4" -> 4 [] c = "5" -> 5 [] c = "6" -> 6 [] c = "7" -> 7
    [] c = "8" -> 8 [] c = "9" -> 9

RECURSIVE StripLeft(_)
StripLeft(s) ==
  IF s # <<>> /\ IsSpace(s[1]) THEN StripLeft(Tail(s)) ELSE s

RECURSIVE StripRight(_)
StripRight(s) ==
  IF s # <<>> /\ IsSpace(s[Len(s)])
  THEN StripRight(SubSeq(s, 1, Len(s) - 1)) ELSE s

Strip(s) == StripRight(StripLeft(s))

RECURSIVE DigitsValue(_)
DigitsValue(s) ==
  IF s = <<>> THEN 0
  ELSE 10 * DigitsValue(SubSeq(s, 1, Len(s) - 1)) + DigitVal(s[Len(s)])

\* int(line): surrounding whitespace stripped, optional sign, decimal digits
ParseInt(line) ==
  LET s == Strip(line)
      signed == s # <<>> /\ s[1] \in {"+", "-"}
      digits == IF signed THEN Tail(s) ELSE s
      ok == digits # <<>> /\ \A i \in 1..Len(digits) : IsDigit(digits[i])
  IN  IF ~ok THEN [ok |-> FALSE, val |-> 0]
      ELSE [ok |-> TRUE,
            val |-> IF signed /\ s[1] = "-" THEN 0 - DigitsValue(digits)
                    ELSE DigitsValue(digits)]

\* Mutant: n random bytes before the newline.
HexStringOneMore(n) == [i \in 1..(n + 1) |-> IF i = n + 1 THEN NL ELSE "?"]

\* os.urandom(n - 1) + '\x0a': the random bytes are written "?"
HexString(n) == [i \in 1..n |-> IF i = n THEN NL ELSE "?"]

HexHandler(line) ==
  LET p == ParseInt(line)
  IN  IF p.ok /\ p.val > 0
      THEN << Msg("hex", 2, HexString(p.val)) >>
      ELSE << Msg("hexwarn", 2, <<>>),
              Msg("hex", 2, HexString(DefaultHexLength)) >>

\* 'Received %d bytes.\n' % len(line): the number is kept as the line
ByteCountHandler(line) == << [kind |-> "count", test |-> Len(line), data |-> <<>>] >>

DataHandler(t, line) ==
  CASE t = 1 -> EchoHandler(line)
    [] t = 2 -> HexHandler(line)
    [] OTHER -> ByteCountHandler(line)

Dispatch(t, line, term) == [test |-> t, line |-> line, term |-> term]

\* if start_i < len(message) - 1
KeepsTail(si, m) == si < Len(m) - 1

\* The line loop run to its end on one batch: the lines it handles or
\* recognises as terminator, whether it ended the sub-test, and start_i.
RECURSIVE LineLoop(_, _, _)
LineLoop(full, si, t) ==
  LET ei == Find(full, si)
  IN  IF ei = -1 THEN [recs |-> <<>>, done |-> FALSE, start_i |-> si]
      ELSE LET line == Slice(full, si, ei + 1)
           IN  IF EndPatternMatch(line)
               THEN [recs |-> << Dispatch(t, line, TRUE) >>, done |-> TRUE,
                     start_i |-> ei + 1]
               ELSE LET r == LineLoop(full, ei + 1, t)
                    IN  [recs |-> << Dispatch(t, line, FALSE) >> \o r.recs,
                         done |-> r.done, start_i |-> r.start_i]

\* The run_test calls from sub-test t on when the bytes m arrive as one
\* chunk (the first call reads it, the later ones get the carry-over).
RECURSIVE UnsplitRun(_, _)
UnsplitRun(t, m) ==
  IF t > 3 \/ ~HasNewline(m) THEN <<>>
  ELSE LET r == LineLoop(m, 0, t)
           rest == IF KeepsTail(r.start_i, m) THEN SliceFrom(m, r.start_i)
                   ELSE <<>>
       IN  r.recs \o (IF r.done THEN UnsplitRun(t + 1, rest) ELSE <<>>)

\* ------------------------------------------------------------------ Init
Init ==
  /\ pc = "accept"
  /\ conn = 0
  /\ budget = MaxBytes
  /\ wire = <<>>
  /\ peer = "none"
  /\ cstate = "none"
  /\ test = 0
  /\ remaining_msg = <<>>
  /\ initial_message = <<>>
  /\ messages = <<>>
  /\ remaining_message = <<>>
  /\ done = FALSE
  /\ message = <<>>
  /\ full_message = <<>>
  /\ start_i = 0
  /\ end_i = -1
  /\ stream = <<>>
  /\ fed = <<>>
  /\ acquired = 0
  /\ dispatched = <<>>
  /\ sent = <<>>
  /\ zeroReads = 0
  /\ lineReads = TRUE
  /\ ended = ""
  /\ failures = 0

\* ------------------------------------------------------------ the peer
\* The server looks at the received bytes only in recv, so a write is taken
\* when the server is about to read.  The client writes again once the
\* server has read its earlier bytes up to MaxUnread of them.
ClientSend ==
  /\ peer = "open"
  /\ pc = "input"
  /\ Len(wire) <= MaxUnread
  /\ \E w \in Writes :
        /\ Len(w) <= budget
        /\ wire' = wire \o w
        /\ budget' = budget - Len(w)
  /\ UNCHANGED <<pc, conn, peer, cstate, locals, history>>

PeerClose ==
  /\ peer = "open"
  /\ pc \notin {"accept", "sockerr", "disc"}
  /\ peer' = "closed"
  /\ UNCHANGED <<pc, conn, budget, wire, cstate, locals, history>>

\* A send to a peer that has gone may raise socket.error (EPIPE).
SendRaises ==
  /\ peer = "closed"
  /\ pc' = "sockerr"

\* ------------------------------------------------- launch_testserver
\* c, addr = s.accept()
Accept ==
  /\ pc = "accept"
  /\ conn < MaxConns
  /\ conn' = conn + 1
  /\ pc' = "banner"
  /\ wire' = <<>>
  /\ peer' = "open"
  /\ cstate' = "open"
  /\ stream' = <<>>
  /\ fed' = <<>>
  /\ acquired' = 0
  /\ dispatched' = <<>>
  /\ sent' = <<>>
  /\ zeroReads' = 0
  /\ lineReads' = TRUE
  /\ ended' = ""
  /\ UNCHANGED <<budget, locals, failures>>

\* The frames of handle_connection and run_test are gone once the call has
\* returned or an exception has left it: their locals hold nothing.
FramesDiscarded ==
  /\ test' = 0
  /\ remaining_msg' = <<>>
  /\ initial_message' = <<>>
  /\ messages' = <<>>
  /\ remaining_message' = <<>>
  /\ done' = FALSE
  /\ message' = <<>>
  /\ full_message' = <<>>
  /\ start_i' = 0
  /\ end_i' = -1

\* Mutant: the exception is not caught inside the loop and ends it.
SocketErrorStopsLoop ==
  /\ pc = "sockerr"
  /\ pc' = "stopped"
  /\ ended' = "socket_error"
  /\ failures' = failures + 1
  /\ FramesDiscarded
  /\ UNCHANGED <<conn, budget, wire, peer, cstate,
                 stream, fed, acquired, dispatched, sent, zeroReads,
                 lineReads>>

\* except socket.error: log only, back to accept
SocketErrorHandler ==
  /\ pc = "sockerr"
  /\ pc' = "accept"
  /\ ended' = "socket_error"
  /\ failures' = failures + 1
  /\ FramesDiscarded
  /\ UNCHANGED <<conn, budget, wire, peer, cstate,
                 stream, fed, acquired, dispatched, sent, zeroReads,
                 lineReads>>

\* Mutant: the handler logs and goes on without c.close().
DisconnectedHandlerNoClose ==
  /\ pc = "disc"
  /\ pc' = "accept"
  /\ ended' = "disconnected"
  /\ failures' = failures + 1
  /\ FramesDiscarded
  /\ UNCHANGED <<conn, budget, wire, peer, cstate,
                 stream, fed, acquired, dispatched, sent, zeroReads,
                 lineReads>>

\* except DisconnectedError: log, c.close(), back to accept
DisconnectedHandler ==
  /\ pc = "disc"
  /\ cstate' = "closed"
  /\ pc' = "accept"
  /\ ended' = "disconnected"
  /\ failures' = failures + 1
  /\ FramesDiscarded
  /\ UNCHANGED <<conn, budget, wire, peer,
                 stream, fed, acquired, dispatched, sent, zeroReads,
                 lineReads>>

\* ------------------------------------------------- handle_connection
\* connection.send('Netbyte Test Server v%s\n'), then the first run_test call
SendBanner ==
  /\ pc = "banner"
  /\ \/ /\ sent' = Append(sent, Banner)
        /\ test' = 1
        /\ pc' = "header"
     \/ /\ SendRaises
        /\ UNCHANGED <<sent, test>>
  /\ UNCHANGED <<conn, budget, wire, peer, cstate, remaining_msg,
                 initial_message, messages, remaining_message, done, message,
                 full_message, start_i, end_i, stream, fed, acquired,
                 dispatched, zeroReads, lineReads, ended, failures>>

\* Mutant: a sub-test started with carry-over bytes sends no header.
StartTestHeaderUnlessCarry ==
  /\ pc = "header"
  /\ \/ /\ sent' = IF test > 1 /\ remaining_msg # <<>> THEN sent
                   ELSE Append(sent, Header(test))
        /\ initial_message' = IF test = 1 THEN <<>> ELSE remaining_msg
        /\ messages' = <<>>
        /\ remaining_message' = <<>>
        /\ done' = FALSE
        /\ fed' = <<>>
        /\ acquired' = 0
        /\ pc' = "loop"
     \/ /\ SendRaises
        /\ UNCHANGED <<sent, initial_message, messages, remaining_message,
                       done, fed, acquired>>
  /\ UNCHANGED <<conn, budget, wire, peer, cstate, test, remaining_msg,
                 message, full_message, start_i, end_i, stream, dispatched,
                 zeroReads, lineReads, ended, failures>>

\* run_test entry: parameters bound, header sent, locals initialised
StartTest ==
  /\ pc = "header"
  /\ \/ /\ sent' = Append(sent, Header(test))
        /\ initial_message' = IF test = 1 THEN <<>> ELSE remaining_msg
        /\ messages' = <<>>
        /\ remaining_message' = <<>>
        /\ done' = FALSE
        /\ fed' = <<>>
        /\ acquired' = 0
        /\ pc' = "loop"
     \/ /\ SendRaises
        /\ UNCHANGED <<sent, initial_message, messages, remaining_message,
                       done, fed, acquired>>
  /\ UNCHANGED <<conn, budget, wire, peer, cstate, test, remaining_msg,
                 message, full_message, start_i, end_i, stream, dispatched,
                 zeroReads, lineReads, ended, failures>>

\* Mutant: the prompt is sent before the first input of a sub-test only.
SendPromptFirstOnly ==
  /\ pc = "loop"
  /\ ~done
  /\ \/ /\ sent' = IF HasPrompt(test) /\ acquired = 0
                   THEN Append(sent, PromptMsg(test)) ELSE sent
        /\ pc' = "input"
     \/ /\ HasPrompt(test)
        /\ SendRaises
        /\ UNCHANGED sent
  /\ UNCHANGED <<conn, budget, wire, peer, cstate, locals,
                 stream, fed, acquired, dispatched, zeroReads, lineReads,
                 ended, failures>>

\* while not done: if prompt: connection.send(prompt)
SendPrompt ==
  /\ pc = "loop"
  /\ ~done
  /\ \/ /\ sent' = IF HasPrompt(test) THEN Append(sent, PromptMsg(test)) ELSE sent
        /\ pc' = "input"
     \/ /\ HasPrompt(test)
        /\ SendRaises
        /\ UNCHANGED sent
  /\ UNCHANGED <<conn, budget, wire, peer, cstate, locals,
                 stream, fed, acquired, dispatched, zeroReads, lineReads,
                 ended, failures>>

\* return remaining_message, assigned to remaining_msg by the caller
ReturnTest ==
  /\ pc = "loop"
  /\ done
  /\ remaining_msg' = remaining_message
  /\ IF test < 3
     THEN test' = test + 1 /\ pc' = "header"
     ELSE test' = test /\ pc' = "trailer"
  /\ UNCHANGED <<conn, budget, wire, peer, cstate, initial_message, messages,
                 remaining_message, done, message, full_message, start_i,
                 end_i, history>>

\* if message: messages.append(message); if '\n' in message: start the line loop
Obtained(m) ==
  /\ messages' = messages \o m
  /\ fed' = fed \o m
  /\ acquired' = acquired + 1
  /\ IF HasNewline(m)
     THEN /\ message' = m
          /\ start_i' = 0
          /\ full_message' = messages \o m
          /\ end_i' = Find(messages \o m, 0)
          /\ pc' = "lines"
     ELSE /\ UNCHANGED <<message, start_i, full_message, end_i>>
          /\ pc' = "loop"

\* Mutant: the carry-over is used but not cleared.
UseInitialNotCleared ==
  /\ pc = "input"
  /\ initial_message # <<>>
  /\ initial_message' = initial_message
  /\ Obtained(initial_message)
  /\ UNCHANGED <<conn, budget, wire, peer, cstate, test, remaining_msg,
                 remaining_message, done, stream, dispatched, sent,
                 zeroReads, lineReads, ended, failures>>

\* message = initial_message; initial_message = ''
UseInitial ==
  /\ pc = "input"
  /\ initial_message # <<>>
  /\ initial_message' = <<>>
  /\ Obtained(initial_message)
  /\ UNCHANGED <<conn, budget, wire, peer, cstate, test, remaining_msg,
                 remaining_message, done, stream, dispatched, sent,
                 zeroReads, lineReads, ended, failures>>

IsOneLine(m) == m # <<>> /\ Find(m, 0) = Len(m) - 1

\* message = connection.recv(4096), bytes available
Recv ==
  /\ pc = "input"
  /\ initial_message = <<>>
  /\ wire # <<>>
  /\ \E k \in 1..Min(Len(wire), RecvSize) :
        /\ Obtained(SubSeq(wire, 1, k))
        /\ wire' = SubSeq(wire, k + 1, Len(wire))
        /\ stream' = stream \o SubSeq(wire, 1, k)
        /\ lineReads' = (lineReads /\ IsOneLine(SubSeq(wire, 1, k)))
  /\ UNCHANGED <<conn, budget, peer, cstate, test, remaining_msg,
                 initial_message, remaining_message, done, dispatched, sent,
                 zeroReads, ended, failures>>

\* recv returns '' (the peer closed): raise DisconnectedError()
RecvZero ==
  /\ pc = "input"
  /\ initial_message = <<>>
  /\ wire = <<>>
  /\ peer = "closed"
  /\ zeroReads' = zeroReads + 1
  /\ acquired' = acquired + 1
  /\ pc' = "disc"
  /\ UNCHANGED <<conn, budget, wire, peer, cstate, locals,
                 stream, fed, dispatched, sent, lineReads, ended, failures>>

\* recv raises socket.error (connection reset by the peer)
RecvRaises ==
  /\ pc = "input"
  /\ initial_message = <<>>
  /\ peer = "closed"
  /\ pc' = "sockerr"
  /\ UNCHANGED <<conn, budget, wire, peer, cstate, locals, history>>

\* one iteration of: while end_i != -1 and not done
ProcessLine ==
  /\ pc = "lines"
  /\ end_i # -1 /\ ~done
  /\ LET line == Slice(full_message, start_i, end_i + 1)
     IN  /\ IF EndPatternMatch(line)
            THEN /\ done' = TRUE
                 /\ dispatched' = Append(dispatched, Dispatch(test, line, TRUE))
                 /\ UNCHANGED <<sent, pc>>
            ELSE /\ done' = done
                 /\ dispatched' = Append(dispatched, Dispatch(test, line, FALSE))
                 /\ \/ /\ sent' = sent \o DataHandler(test, line)
                       /\ pc' = pc
                    \/ /\ \E k \in 0..(Len(DataHandler(test, line)) - 1) :
                             sent' = sent \o SubSeq(DataHandler(test, line), 1, k)
                       /\ SendRaises
         /\ start_i' = end_i + 1
         /\ end_i' = Find(full_message, end_i + 1)
  /\ UNCHANGED <<conn, budget, wire, peer, cstate, test, remaining_msg,
                 initial_message, messages, remaining_message, message,
                 full_message, stream, fed, acquired, zeroReads, lineReads,
                 ended, failures>>

\* Mutant: the whole batch is kept as the pending buffer.
AfterLinesKeepsBatch ==
  /\ pc = "lines"
  /\ ~(end_i # -1 /\ ~done)
  /\ IF KeepsTail(start_i, message)
     THEN IF done
          THEN /\ remaining_message' = SliceFrom(full_message, start_i)
               /\ UNCHANGED messages
          ELSE /\ messages' = full_message
               /\ UNCHANGED remaining_message
     ELSE /\ messages' = <<>>
          /\ UNCHANGED remaining_message
  /\ message' = <<>>
  /\ full_message' = <<>>
  /\ start_i' = 0
  /\ end_i' = -1
  /\ pc' = "loop"
  /\ UNCHANGED <<conn, budget, wire, peer, cstate, test, remaining_msg,
                 initial_message, done, history>>

\* Mutant: the whole batch is returned as the remaining bytes.
AfterLinesReturnsBatch ==
  /\ pc = "lines"
  /\ ~(end_i # -1 /\ ~done)
  /\ IF KeepsTail(start_i, message)
     THEN IF done
          THEN /\ remaining_message' = full_message
               /\ UNCHANGED messages
          ELSE /\ messages' = SliceFrom(full_message, start_i)
               /\ UNCHANGED remaining_message
     ELSE /\ messages' = <<>>
          /\ UNCHANGED remaining_message
  /\ message' = <<>>
  /\ full_message' = <<>>
  /\ start_i' = 0
  /\ end_i' = -1
  /\ pc' = "loop"
  /\ UNCHANGED <<conn, budget, wire, peer, cstate, test, remaining_msg,
                 initial_message, done, history>>

\* after the line loop: keep the tail or drop the buffer; the chunk and the
\* loop's locals are dead from here on and are cleared
AfterLines ==
  /\ pc = "lines"
  /\ ~(end_i # -1 /\ ~done)
  /\ IF KeepsTail(start_i, message)
     THEN IF done
          THEN /\ remaining_message' = SliceFrom(full_message, start_i)
               /\ UNCHANGED messages
          ELSE /\ messages' = SliceFrom(full_message, start_i)
               /\ UNCHANGED remaining_message
     ELSE /\ messages' = <<>>
          /\ UNCHANGED remaining_message
  /\ message' = <<>>
  /\ full_message' = <<>>
  /\ start_i' = 0
  /\ end_i' = -1
  /\ pc' = "loop"
  /\ UNCHANGED <<conn, budget, wire, peer, cstate, test, remaining_msg,
                 initial_message, done, history>>

\* Mutant: the remaining bytes are logged but not reported to the peer.
SendTrailingNever ==
  /\ pc = "trailer"
  /\ pc' = "closing"
  /\ UNCHANGED <<conn, budget, wire, peer, cstate, locals, history>>

\* if remaining_msg: connection.send(info)
SendTrailing ==
  /\ pc = "trailer"
  /\ \/ /\ sent' = IF remaining_msg # <<>>
                   THEN Append(sent, TrailingInfo(remaining_msg)) ELSE sent
        /\ pc' = "closing"
     \/ /\ remaining_msg # <<>>
        /\ SendRaises
        /\ UNCHANGED sent
  /\ UNCHANGED <<conn, budget, wire, peer, cstate, locals,
                 stream, fed, acquired, dispatched, zeroReads, lineReads,
                 ended, failures>>

\* Mutant: the connection is closed without the closing message.
SendClosingOmitted ==
  /\ pc = "closing"
  /\ pc' = "close"
  /\ UNCHANGED <<conn, budget, wire, peer, cstate, locals, history>>

\* connection.send('Closing connection to test server\n')
SendClosing ==
  /\ pc = "closing"
  /\ \/ /\ sent' = Append(sent, ClosingMsg)
        /\ pc' = "close"
     \/ /\ SendRaises
        /\ UNCHANGED sent
  /\ UNCHANGED <<conn, budget, wire, peer, cstate, locals,
                 stream, fed, acquired, dispatched, zeroReads, lineReads,
                 ended, failures>>

\* connection.close(); handle_connection returns to the accept loop
CloseConnection ==
  /\ pc = "close"
  /\ cstate' = "closed"
  /\ pc' = "accept"
  /\ ended' = "completed"
  /\ FramesDiscarded
  /\ UNCHANGED <<conn, budget, wire, peer,
                 stream, fed, acquired, dispatched, sent, zeroReads, lineReads,
                 failures>>

Next ==
  \/ ClientSend
  \/ PeerClose
  \/ Accept
  \/ SocketErrorHandler
  \/ DisconnectedHandler
  \/ SendBanner
  \/ StartTest
  \/ SendPrompt
  \/ ReturnTest
  \/ UseInitial
  \/ Recv
  \/ RecvZero
  \/ RecvRaises
  \/ ProcessLine
  \/ AfterLines
  \/ SendTrailing
  \/ SendClosing
  \/ CloseConnection

Spec == Init /\ [][Next]_vars

\* ------------------------------------------- hex_handler on arbitrary lines
\* The bytes a line given to hex_handler is made of: digits, signs, a blank
\* and a letter.
HexAlphabet == {"0", "1", "3", "-", "+", " ", "a"}

HexLines ==
  { body \o <<NL>> :
      body \in UNION { [1..k -> HexAlphabet] : k \in 0..MaxHexLine } }

\* A connection whose Echo sub-test was ended by "end\n" and whose Hex
\* sub-test has just read one line: the line loop is about to handle it.
HexInit ==
  \E line \in HexLines :
    /\ pc = "lines"
    /\ conn = 1
    /\ budget = 0
    /\ wire = <<>>
    /\ peer = "open"
    /\ cstate = "open"
    /\ test = 2
    /\ remaining_msg = <<>>
    /\ initial_message = <<>>
    /\ messages = line
    /\ remaining_message = <<>>
    /\ done = FALSE
    /\ message = line
    /\ full_message = line
    /\ start_i = 0
    /\ end_i = Find(line, 0)
    /\ stream = <<"e", "n", "d", NL>> \o line
    /\ fed = line
    /\ acquired = 1
    /\ dispatched = << Dispatch(1, <<"e", "n", "d", NL>>, TRUE) >>
    /\ sent = << Banner, Header(1), Header(2), PromptMsg(2) >>
    /\ zeroReads = 0
    /\ lineReads = TRUE
    /\ ended = ""
    /\ failures = 0

\* The line loop on that line, with a peer that may go away meanwhile.
HexNext ==
  \/ ProcessLine
  \/ AfterLines
  \/ PeerClose
  \/ SocketErrorHandler

HexSpec == HexInit /\ [][HexNext]_vars

\* ====================================================== terms of the claims
\* The complete (newline-terminated) lines of a byte string, in order.
RECURSIVE CompleteLines(_)
CompleteLines(s) ==
  LET e == Find(s, 0)
  IN  IF e = -1 THEN <<>>
      ELSE << Slice(s, 0, e + 1) >> \o CompleteLines(SliceFrom(s, e + 1))

\* The termination keyword as the specification words it: the word "end" in
\* any letter case with nothing but whitespace around it.
IsEndKeyword(line) ==
  LET w == Strip(line)
  IN  /\ Len(w) = 3
      /\ Lower(w[1]) = "e"
      /\ Lower(w[2]) = "n"
      /\ Lower(w[3]) = "d"

Last(s) == s[Len(s)]

OfKind(kinds) == SelectSeq(sent, LAMBDA m : m.kind \in kinds)

Terminators == SelectSeq(dispatched, LAMBDA d : d.term)

\* Every byte received so far has been through the line loop.
AllProcessed ==
  \/ pc = "input" /\ initial_message = <<>> /\ wire = <<>>
  \/ pc = "trailer"

\* ------------------------------------------------------------------- C1
\* C1: however the received bytes were split into reads, the lines handled
\* and recognised as terminators are those of the run in which the same
\* bytes arrive as one chunk.
C1_ChunkBoundaryInvariance ==
  AllProcessed => dispatched = UnsplitRun(1, stream)

\* ------------------------------------------------------------------- C2
\* C2: when a sub-test ends, every byte of the batch after the terminating
\* line is what run_test returns, what the next run_test is started with,
\* and the first input that sub-test consumes.
C2_LeftoverHandOff ==
  [][ /\ (pc = "lines" /\ pc' = "loop" /\ done)
           => remaining_message' = SliceFrom(full_message, start_i)
      /\ (pc = "loop" /\ pc' \in {"header", "trailer"})
           => remaining_msg' = remaining_message
      /\ (pc = "header" /\ pc' = "loop" /\ test > 1)
           => initial_message' = remaining_msg
      /\ (pc = "input" /\ pc' # "input" /\ initial_message # <<>>)
           => (fed = <<>> /\ fed' = initial_message /\ wire' = wire)
    ]_vars

\* ------------------------------------------------------------------- C3
\* C3: a line ends the sub-test exactly when it is the keyword "end" in any
\* letter case with only whitespace around it; every other line goes to the
\* handler.
C3_TerminationPredicate ==
  \A i \in 1..Len(dispatched) :
     dispatched[i].term = IsEndKeyword(dispatched[i].line)

\* ------------------------------------------------------------------- C4
\* C4: the headers sent are those of Echo, Hex, Byte Count in this order,
\* each at most once; a header is sent only after the sub-test before it
\* was left, and a sub-test is left only on a line that is the termination
\* keyword, or with the session failing.
C4_SubtestOrder ==
  LET hs == OfKind({"header"})
  IN  /\ Len(hs) <= 3
      /\ \A i \in 1..Len(hs) : hs[i].test = i
      /\ Len(Terminators) <= Len(hs)
      /\ Len(hs) <= Len(Terminators) + 1
      /\ \A i \in 1..Len(Terminators) :
            /\ Terminators[i].test = i
            /\ IsEndKeyword(Terminators[i].line)
      /\ (pc \in {"loop", "input", "lines"}) => (test = Len(hs))

\* ------------------------------------------------------------------- C5
\* C5: the server is never left waiting for input, with the peer still
\* connected and nothing unread, in a sub-test whose input already holds a
\* complete line that is the termination keyword.
C5_KeywordEndsSubtest ==
  (pc = "input" /\ initial_message = <<>> /\ wire = <<>> /\ peer = "open")
    => \A i \in 1..Len(CompleteLines(fed)) :
          ~IsEndKeyword(CompleteLines(fed)[i])

\* ------------------------------------------------------------------- C6
\* State part of C6: at most one zero-length read per connection, and after
\* it the server is in the handler or back at accept with the socket closed.
C6_StateOK ==
  /\ zeroReads <= 1
  /\ zeroReads = 1 =>
        \/ pc = "disc" /\ cstate = "open"
        \/ pc = "accept" /\ cstate = "closed" /\ ended = "disconnected"

\* C6: a zero-length read raises DisconnectedError at once (there is never a
\* second read on the connection); from then on nothing is sent and no
\* sub-test starts, and the next thing the server does is close the
\* connection and go back to accept.
C6_ZeroReadDisconnects ==
  [][ /\ C6_StateOK /\ C6_StateOK'
      /\ zeroReads' > zeroReads => (pc = "input" /\ pc' = "disc" /\ sent' = sent)
      /\ pc = "disc" =>
           /\ zeroReads = 1
           /\ pc' = "accept"
           /\ cstate' = "closed"
           /\ sent' = sent
           /\ dispatched' = dispatched
    ]_vars

\* a session with the Hex sub-test under way was ended by a zero-length read
C6_Witness ==
  /\ pc = "accept"
  /\ ended = "disconnected"
  /\ zeroReads = 1
  /\ cstate = "closed"
  /\ Len(OfKind({"header"})) = 2
  /\ Last(sent) = PromptMsg(2)

\* ------------------------------------------------------------------- C7
\* C7: the closing message is sent at most once, nothing is sent after it,
\* it has been sent when the server is about to close a session that ran
\* through its three sub-tests, and a connection closed otherwise than after
\* a zero-length read is closed with the closing message as its last message.
C7_ClosingMessageLast ==
  LET n == Len(OfKind({"closing"}))
  IN  /\ n <= 1
      /\ n = 1 => (Last(sent) = ClosingMsg /\ Len(Terminators) = 3)
      /\ pc = "close" => (n = 1 /\ cstate = "open")
      /\ ended = "completed" => (n = 1 /\ cstate = "closed")
      /\ (cstate = "closed" /\ ended # "disconnected") => n = 1

\* a session whose three sub-tests were all ended by the keyword is closed
C7_Witness ==
  /\ pc = "accept"
  /\ ended = "completed"
  /\ cstate = "closed"
  /\ Len(Terminators) = 3
  /\ \A i \in 1..3 : IsEndKeyword(Terminators[i].line)
  /\ Last(sent) = ClosingMsg

\* ------------------------------------------------------------------- C8
\* What the claim expects of lines that each arrive as one read: the line
\* goes to the sub-test counted by the keyword lines before it, and a keyword
\* line ends that sub-test.
RECURSIVE ExpectedDispatch(_, _)
ExpectedDispatch(lines, t) ==
  IF lines = <<>> \/ t > 3 THEN <<>>
  ELSE LET k == IsEndKeyword(Head(lines))
       IN  << Dispatch(t, Head(lines), k) >>
             \o ExpectedDispatch(Tail(lines), IF k THEN t + 1 ELSE t)

RECURSIVE ExpectedResponses(_)
ExpectedResponses(ds) ==
  IF ds = <<>> THEN <<>>
  ELSE (IF Head(ds).term THEN <<>> ELSE DataHandler(Head(ds).test, Head(ds).line))
         \o ExpectedResponses(Tail(ds))

\* C8: while every read returned exactly one whole line and no send failed,
\* each line other than the keyword has gone, once and in order, to the
\* handler selected by the number of keyword lines before it, its response
\* was sent before the next read, and after the third keyword line the
\* closing message is sent and the connection closed.
C8_EndToEnd ==
  (/\ lineReads
   /\ \/ pc \in {"header", "loop", "input", "trailer", "closing", "close"}
      \/ pc = "accept" /\ ended = "completed")
  => LET want == ExpectedDispatch(CompleteLines(stream), 1)
     IN  /\ dispatched = want
         /\ OfKind({"echo", "hex", "hexwarn", "count"}) = ExpectedResponses(want)
         /\ (Len(SelectSeq(want, LAMBDA d : d.term)) = 3)
               => pc \notin {"header", "input"}
         /\ (pc \in {"trailer", "closing", "close"} \/ ended = "completed")
               => Len(SelectSeq(want, LAMBDA d : d.term)) = 3
         /\ ended = "completed" => (Last(sent) = ClosingMsg /\ cstate = "closed")

\* ------------------------------------------------------------------- C9
\* C9: with non-empty remaining bytes after Byte Count the server sends
\* exactly one warning, which carries those bytes, directly before the
\* closing message, and then closes; with empty remaining bytes it sends no
\* warning.
C9_TrailingWarning ==
  LET tr == OfKind({"trailing"})
  IN  /\ Len(tr) <= 1
      /\ tr # <<>> => pc \in {"closing", "close", "sockerr", "accept"}
      /\ pc \in {"closing", "close"} =>
            IF remaining_msg # <<>>
            THEN tr = << TrailingInfo(remaining_msg) >>
            ELSE tr = <<>>
      /\ (pc = "closing" /\ tr # <<>>) => Last(sent) = tr[1]
      /\ (pc = "close" \/ ended = "completed") =>
            /\ Last(sent) = ClosingMsg
            /\ tr # <<>> => (Len(sent) >= 2 /\ sent[Len(sent) - 1] = tr[1])
      /\ ended = "completed" => cstate = "closed"

\* a session that ended with two bytes left over: warning, closing, close
C9_Witness ==
  /\ pc = "accept"
  /\ ended = "completed"
  /\ cstate = "closed"
  /\ Len(sent) >= 2
  /\ sent[Len(sent) - 1] = TrailingInfo(<<"m", "o">>)
  /\ Last(sent) = ClosingMsg

\* ------------------------------------------------------------------ C10
\* State part of C10: what a connection starts with.
C10_StateOK ==
  /\ pc = "banner" => (sent = <<>> /\ stream = <<>> /\ dispatched = <<>>)
  /\ (pc \in {"loop", "input"} /\ test = 1 /\ fed = <<>>) =>
        /\ sent = << Banner, Header(1) >>
        /\ messages = <<>>
        /\ initial_message = <<>>
        /\ remaining_message = <<>>
        /\ ~done
        /\ dispatched = <<>>
  /\ pc = "accept" => test = 0

\* C10: a new connection is taken only from the accept state, one at a time;
\* the handler of a DisconnectedError or of a socket error leads back to
\* accept, where the next connection can be taken; and every connection
\* starts with the banner and then the Echo sub-test with nothing pending,
\* nothing carried over and nothing handled.
C10_AcceptLoopGoesOn ==
  [][ /\ C10_StateOK /\ C10_StateOK'
      /\ pc \in {"disc", "sockerr"} => (pc' = "accept" /\ conn' = conn)
      /\ conn' # conn => (pc = "accept" /\ pc' = "banner" /\ conn' = conn + 1)
      /\ (pc = "accept" /\ conn < MaxConns) => ENABLED Accept
    ]_vars

\* the second connection, taken after the first ended with an exception,
\* is at the first read of its Echo sub-test
C10_Witness ==
  /\ conn = 2
  /\ failures = 1
  /\ pc = "input"
  /\ test = 1
  /\ fed = <<>>
  /\ sent = << Banner, Header(1) >>

\* ------------------------------------------------------------------ C11
\* C11: a call of the Hex handler that returns has sent, for a line that
\* parses as a decimal integer N > 0, one message of exactly N bytes ending
\* in a newline and no warning; for any other line, the warning and then one
\* message of exactly 10 bytes ending in a newline.
C11_HexHandlerOutput ==
  [][ (pc = "lines" /\ test = 2 /\ pc' = "lines" /\ ~done'
         /\ dispatched' # dispatched)
      => LET line == Last(dispatched').line
             out == SubSeq(sent', Len(sent) + 1, Len(sent'))
             p == ParseInt(line)
         IN  IF p.ok /\ p.val > 0
             THEN /\ Len(out) = 1
                  /\ out[1].kind = "hex"
                  /\ Len(out[1].data) = p.val
                  /\ Last(out[1].data) = NL
             ELSE /\ Len(out) = 2
                  /\ out[1].kind = "hexwarn"
                  /\ out[2].kind = "hex"
                  /\ Len(out[2].data) = 10
                  /\ Last(out[2].data) = NL
    ]_vars

\* the Hex handler has answered the line "0\n": warning, then ten bytes
C11_Witness ==
  /\ test = 2
  /\ Last(dispatched) = Dispatch(2, <<"0", NL>>, FALSE)
  /\ Len(sent) = 6
  /\ sent[5].kind = "hexwarn"
  /\ sent[6].kind = "hex"
  /\ Len(sent[6].data) = 10

\* ------------------------------------------------------------------ C12
\* The bytes of a byte string after its last newline (all of it when it has
\* no newline).
RECURSIVE AfterLastNewline(_)
AfterLastNewline(s) ==
  IF s = <<>> \/ s[Len(s)] = NL THEN <<>>
  ELSE Append(AfterLastNewline(SubSeq(s, 1, Len(s) - 1)), s[Len(s)])

\* C12: when the line loop has gone through a batch without ending the
\* sub-test, the pending buffer kept for the next iteration is exactly the
\* bytes of the batch after its last newline, whatever their number.
C12_PendingIsTail ==
  [][ (pc = "lines" /\ pc' = "loop" /\ ~done)
        => messages' = AfterLastNewline(full_message)
    ]_vars

\* ------------------------------------------------------------------ C13
\* C13: in the batch under the line loop the complete lines are taken in
\* order; each line taken before the termination keyword went to the handler
\* of the current sub-test, the first keyword line ended the sub-test without
\* going to the handler, no line after it was taken, and the loop is left
\* only at the keyword line or when no complete line is left.
C13_StopAtFirstTerminator ==
  (pc = "lines") =>
    LET taken == CompleteLines(Slice(full_message, 0, start_i))
        n == Len(taken)
        base == Len(dispatched) - n
    IN  /\ base >= 0
        /\ \A i \in 1..n :
              dispatched[base + i] =
                Dispatch(test, taken[i], IsEndKeyword(taken[i]))
        /\ \A i \in 1..(n - 1) : ~IsEndKeyword(taken[i])
        /\ done = (n > 0 /\ IsEndKeyword(taken[n]))
        /\ (~done /\ end_i = -1) => Find(full_message, start_i) = -1

\* ------------------------------------------------------------------ C14
\* Prompts of sub-test t sent so far on this connection.
PromptsOf(t) ==
  Len(SelectSeq(sent, LAMBDA m : m.kind = "prompt" /\ m.test = t))

\* Lines the line loop has taken so far in sub-test t.
LinesOf(t) == Len(SelectSeq(dispatched, LAMBDA d : d.test = t))

\* C14: no prompt is ever sent in the Echo sub-test or for a sub-test not yet
\* started; in Hex and Byte Count the prompts sent are as many as the inputs
\* obtained (carry-over, read, or zero-length read), one more while the
\* server is about to obtain the input of the iteration, and then the prompt
\* is the last message sent.
C14_PromptPerIteration ==
  /\ PromptsOf(1) = 0
  /\ \A t \in 2..3 : (test >= 1 /\ t > test) => PromptsOf(t) = 0
  /\ (HasPrompt(test) /\ pc = "input") =>
        /\ PromptsOf(test) = acquired + 1
        /\ Last(sent) = PromptMsg(test)
  /\ (HasPrompt(test) /\ pc \in {"loop", "lines", "disc"}) =>
        PromptsOf(test) = acquired

\* the Hex sub-test has obtained two inputs that made one line: two prompts
C14_Witness ==
  /\ pc = "loop"
  /\ test = 2
  /\ acquired = 2
  /\ PromptsOf(2) = 2
  /\ LinesOf(2) = 1
  /\ PromptsOf(1) = 0

\* ------------------------------------------------------------------ C15
\* The sub-test a message other than a header belongs to (0: none).
SubtestOf(m) ==
  CASE m.kind = "prompt" -> m.test
    [] m.kind = "echo" -> 1
    [] m.kind \in {"hex", "hexwarn"} -> 2
    [] m.kind = "count" -> 3
    [] OTHER -> 0

HeadersOf(t) == Len(SelectSeq(sent, LAMBDA m : m = Header(t)))

\* C15: the banner is the first message of a connection and is sent once;
\* the header of a sub-test is sent at most once, has been sent exactly once
\* while the sub-test runs (so before its first prompt and its first input,
\* carry-over or read), and every prompt and handler response of a sub-test
\* comes after its header.
C15_BannerAndHeaders ==
  /\ sent # <<>> => sent[1] = Banner
  /\ \A i \in 2..Len(sent) : sent[i] # Banner
  /\ \A t \in 1..3 : HeadersOf(t) <= 1
  /\ pc \in {"loop", "input", "lines"} => HeadersOf(test) = 1
  /\ pc = "header" =>
        /\ HeadersOf(test) = 0
        /\ \A i \in 1..Len(sent) : SubtestOf(sent[i]) # test
  /\ \A i \in 1..Len(sent) :
        SubtestOf(sent[i]) # 0 =>
          \E j \in 1..(i - 1) : sent[j] = Header(SubtestOf(sent[i]))

\* the Hex sub-test, started with carry-over bytes, is about to consume
\* them: its header and then its first prompt are the last messages sent
C15_Witness ==
  /\ pc = "input"
  /\ test = 2
  /\ initial_message # <<>>
  /\ acquired = 0
  /\ sent = << Banner, Header(1), Header(2), PromptMsg(2) >>

\* ------------------------------------------------------------------ C16
\* C16: a sub-test is started with what the one before it returned; while
\* carry-over bytes are there no input has been obtained yet, and the server
\* leaves the input step only by taking them as its first input, without a
\* read and clearing them; once an input has been obtained the carry-over
\* is empty, and every later input is a read of the stream.
C16_CarryOverOnce ==
  [][ /\ (pc = "header" /\ pc' = "loop" /\ test > 1)
           => initial_message' = remaining_msg
      /\ (pc = "input" /\ initial_message # <<>>) =>
           /\ acquired = 0
           /\ pc' # "input" =>
                 /\ pc' \in {"lines", "loop"}
                 /\ fed' = initial_message
                 /\ acquired' = 1
                 /\ initial_message' = <<>>
                 /\ stream' = stream
                 /\ wire' = wire
                 /\ zeroReads' = zeroReads
      /\ (pc \in {"loop", "input", "lines"} /\ acquired >= 1)
           => initial_message = <<>>
      /\ (pc = "input" /\ acquired >= 1 /\ acquired' > acquired)
           => \/ stream' # stream /\ Len(wire') < Len(wire)
              \/ zeroReads' > zeroReads
    ]_vars

\* the Hex sub-test has consumed the carry-over "mo", which holds no
\* newline, and then obtained its second input by a read
C16_Witness ==
  /\ test = 2
  /\ acquired = 2
  /\ Len(fed) > 2
  /\ SubSeq(fed, 1, 2) = <<"m", "o">>
  /\ stream = <<"e", "n", "d", NL, "m", "o">> \o SubSeq(fed, 3, Len(fed))

\* ------------------------------------------------------------------ C17
\* C17: at the start of every iteration of the loop of run_test, and while
\* the iteration waits for its input, the pending buffer holds no newline.
C17_PendingHasNoNewline ==
  (pc = "input" \/ (pc = "loop" /\ ~done)) => ~HasNewline(messages)

\* an iteration starts with pending bytes kept from a batch that held a line
C17_Witness ==
  /\ pc = "input"
  /\ messages # <<>>
  /\ HasNewline(fed)
  /\ ~HasNewline(messages)

\* ------------------------------------------------------------------ C18
RECURSIVE IsSubsequence(_, _)
IsSubsequence(a, b) ==
  IF a = <<>> THEN TRUE
  ELSE IF b = <<>> THEN FALSE
  ELSE IF Head(a) = Head(b) THEN IsSubsequence(Tail(a), Tail(b))
  ELSE IsSubsequence(a, Tail(b))

\* The lines taken by the line loop so far, joined in the order taken.
RECURSIVE JoinedLines(_)
JoinedLines(ds) ==
  IF ds = <<>> THEN <<>> ELSE Head(ds).line \o JoinedLines(Tail(ds))

\* The received bytes the session still holds: the rest of the batch under
\* the line loop, the carry-over and the pending buffer of a running
\* sub-test, the remaining bytes of a sub-test that has ended.
BytesInHand ==
  CASE pc = "lines" -> SliceFrom(full_message, start_i)
    [] pc = "input" -> initial_message \o messages
    [] pc = "loop" -> IF done THEN remaining_message
                      ELSE initial_message \o messages
    [] pc \in {"header", "trailer", "closing", "close"} -> remaining_msg
    [] OTHER -> <<>>

\* C18: the lines taken so far (handled or terminating), in this order,
\* followed by the bytes still held (at the end of the session: the final
\* remaining bytes), are a subsequence of the bytes received on the
\* connection: bytes may be missing, none is there twice or out of order.
C18_NoByteTwice ==
  IsSubsequence(JoinedLines(dispatched) \o BytesInHand, stream)

\* the three sub-tests have ended, two bytes remain, and with the lines
\* taken they are all the bytes received
C18_Witness ==
  /\ pc = "trailer"
  /\ remaining_msg = <<"m", "o">>
  /\ Len(Terminators) = 3
  /\ JoinedLines(dispatched) \o remaining_msg = stream

\* ------------------------------------------------------------------ C19
\* C19: whenever the server is at accept after a session, however that
\* session ended, it has closed the connection of that session.
C19_ClosedBeforeNextAccept ==
  (pc = "accept" /\ conn >= 1) => cstate = "closed"

====
